---- MODULE Spec2Model ----
(***************************************************************************)
(* Model of src/api.py: the plugin installer (install_from_git), the       *)
(* in-memory registry rebuilt by scan_plugins_registry, the manifest       *)
(* loader and the listing endpoint.  Endpoints are plain `def` handlers,   *)
(* which the server runs on a thread pool, so several requests may be in   *)
(* flight at once; every file-system call and every registry access is a   *)
(* separate step of a request.                                             *)
(***************************************************************************)
EXTENDS Integers, Sequences, FiniteSets, TLC

VARIABLES
    disk,           \* contents of PLUGINS_DIR: child name -> directory tree or file
    REGISTRY,       \* plugin_id -> metadata (module-level dict)
    yamlAvailable,  \* whether `import yaml` succeeds in this deployment
    tmpdirs,        \* temporary directories that currently exist
    th,             \* per request: position and locals of install_from_git
    nreq,           \* number of install requests started so far
    started,        \* the startup hook has run
    concurrent,     \* requests may overlap (thread pool) or arrive one at a time
    listing,        \* last answer of list_installed, with what the reader could compare it to
    lastScan,       \* registry as left by the last completed scan
    lastOp          \* the last operation that completed, other than a listing

vars == <<disk, REGISTRY, yamlAvailable, tmpdirs, th, nreq, started, concurrent,
          listing, lastScan, lastOp>>

----------------------------------------------------------------------------
\* Bounds of the model

\* install requests per run
MaxInstalls == 2

\* how many of the initial plugins-root layouts are explored
MaxLayouts == 3

----------------------------------------------------------------------------
\* Configuration (src/api.py:9-11)

PLUGINS_DIR == "~/onetapdev/plugins"

\* version used when the manifest has none
DEFAULT_VERSION == "0.0.0"

----------------------------------------------------------------------------
\* Values

\* dict.get(key) of a key the manifest does not have
NoKey == "<none>"

\* a manifest file: absent, unparsable, parsed to something that is not a
\* mapping, or parsed to a mapping with optional id / name / version
MFile(k, i, n, v) == [kind |-> k, id |-> i, name |-> n, version |-> v]
MAbsent == MFile("absent", NoKey, NoKey, NoKey)
MMalformed == MFile("malformed", NoKey, NoKey, NoKey)
MNonDict == MFile("nondict", NoKey, NoKey, NoKey)
MDict(i, n, v) == MFile("dict", i, n, v)

\* a directory entry: a tree with its two possible manifest files and its
\* other files, a plain file, or nothing
Tree(j, y, fs) == [kind |-> "dir", json |-> j, yaml |-> y, files |-> fs]
PlainFile == [kind |-> "file", json |-> MAbsent, yaml |-> MAbsent, files |-> {}]
NoEntry == [kind |-> "none", json |-> MAbsent, yaml |-> MAbsent, files |-> {}]

\* tempfile.mkdtemp(prefix="labox_git_"): a fresh name per request
TmpName(r) == "labox_git_" \o ToString(r)

\* Path.resolve() of a child of PLUGINS_DIR
Resolve(name) == PLUGINS_DIR \o "/" \o name

----------------------------------------------------------------------------
\* load_manifest (src/api.py:23-43)

Returned(m) == [exc |-> "none", value |-> m]
Raised(e) == [exc |-> e, value |-> MAbsent]

\* json.load / yaml.safe_load of a manifest file that exists
Parse(f) == IF f.kind = "malformed" THEN Raised("error") ELSE Returned(f)

\* variant: a missing YAML parser is reported like a missing manifest
load_manifest_yaml400(dir, yamlOk) ==
    IF dir.json.kind # "absent" THEN Parse(dir.json)
    ELSE IF dir.yaml.kind # "absent"
         THEN IF ~yamlOk THEN Raised("http400") ELSE Parse(dir.yaml)
         ELSE Raised("http400")

\* variant: the YAML manifest is tried first
load_manifest_yaml_first(dir, yamlOk) ==
    IF dir.yaml.kind # "absent"
    THEN IF ~yamlOk THEN Raised("http500") ELSE Parse(dir.yaml)
    ELSE IF dir.json.kind # "absent" THEN Parse(dir.json)
         ELSE Raised("http400")

load_manifest(dir, yamlOk) ==
    IF dir.json.kind # "absent" THEN Parse(dir.json)
    ELSE IF dir.yaml.kind # "absent"
         THEN IF ~yamlOk THEN Raised("http500") ELSE Parse(dir.yaml)
         ELSE Raised("http400")

\* variant: manifest.get("id", dirname), which keeps an empty id
PluginIdKeyOnly(m, dirname) == IF m.id = NoKey THEN dirname ELSE m.id

\* manifest.get("id") or dirname
PluginId(m, dirname) == IF m.id \in {NoKey, ""} THEN dirname ELSE m.id

\* variant: the path is stored as the bare directory name, not resolved
MetaRelPath(m, dirname) ==
    LET pid == PluginId(m, dirname) IN
    [plugin_id |-> pid,
     name |-> IF m.name = NoKey THEN pid ELSE m.name,
     version |-> IF m.version = NoKey THEN DEFAULT_VERSION ELSE m.version,
     path |-> dirname]

\* the metadata built from a manifest (src/api.py:55-61)
Meta(m, dirname) ==
    LET pid == PluginId(m, dirname) IN
    [plugin_id |-> pid,
     name |-> IF m.name = NoKey THEN pid ELSE m.name,
     version |-> IF m.version = NoKey THEN DEFAULT_VERSION ELSE m.version,
     path |-> Resolve(dirname)]

\* d with key k set to v
Put(d, k, v) == [x \in DOMAIN d \cup {k} |-> IF x = k THEN v ELSE d[x]]
\* d without key k
Del(d, k) == [x \in DOMAIN d \ {k} |-> d[x]]
Empty == [x \in {} |-> NoEntry]

\* variant: the loop catches HTTPException only
CaughtOnlyHttp(exc) == exc \in {"http400", "http500"}

\* `except Exception` (src/api.py:62): HTTPException and every other error
\* raised by the loop body are subclasses of Exception
CaughtByExcept(exc) == exc \in {"http400", "http500", "error"}

\* variant: an identity already registered keeps its first entry
LoopBodyFirstWins(reg, e, name, yamlOk) ==
    LET r == load_manifest(e, yamlOk) IN
    IF r.exc # "none" THEN [reg |-> reg, exc |-> r.exc]
    ELSE IF r.value.kind # "dict" THEN [reg |-> reg, exc |-> "error"]
    ELSE IF PluginId(r.value, name) \in DOMAIN reg THEN [reg |-> reg, exc |-> "none"]
    ELSE [reg |-> Put(reg, PluginId(r.value, name), Meta(r.value, name)), exc |-> "none"]

\* the try block of the loop of scan_plugins_registry for one directory
\* (src/api.py:54-61): the registry after it and the exception it raised;
\* `.get` of a parsed value that is not a mapping raises AttributeError
LoopBody(reg, e, name, yamlOk) ==
    LET r == load_manifest(e, yamlOk) IN
    IF r.exc # "none" THEN [reg |-> reg, exc |-> r.exc]
    ELSE IF r.value.kind # "dict" THEN [reg |-> reg, exc |-> "error"]
    ELSE [reg |-> Put(reg, PluginId(r.value, name), Meta(r.value, name)), exc |-> "none"]

\* one iteration of the loop of scan_plugins_registry (src/api.py:50-64):
\* the registry after it, and whether an exception escaped the loop
ScanEntry(reg, fs, name, yamlOk) ==
    LET e == IF name \in DOMAIN fs THEN fs[name] ELSE NoEntry
        b == LoopBody(reg, e, name, yamlOk)
    IN IF e.kind # "dir" THEN [reg |-> reg, raised |-> FALSE]
       ELSE IF b.exc = "none" \/ CaughtByExcept(b.exc)
            THEN [reg |-> b.reg, raised |-> FALSE]
            ELSE [reg |-> reg, raised |-> TRUE]

\* the whole of scan_plugins_registry run without interruption over the
\* entries in the order `order` (src/api.py:45-64)
RECURSIVE ScanFrom(_, _, _, _)
ScanFrom(reg, fs, order, yamlOk) ==
    IF order = <<>> THEN [reg |-> reg, raised |-> FALSE]
    ELSE LET s == ScanEntry(reg, fs, Head(order), yamlOk)
         IN IF s.raised THEN s ELSE ScanFrom(s.reg, fs, Tail(order), yamlOk)

scan_plugins_registry(fs, order, yamlOk) == ScanFrom(Empty, fs, order, yamlOk)

----------------------------------------------------------------------------
\* What the environment can hold

\* Python truthiness of an optional string (None and "" are false)
Truthy(s) == s \notin {NoKey, ""}

\* working trees a clone or a checkout can produce: the tree at the
\* repository root and the tree at its subdirectory "plug"
WT(rt, pl) == [root |-> rt, plug |-> pl]
WorkTrees ==
    << WT(Tree(MDict("a", "Alpha", "1.0"), MAbsent, {"f1"}),
          Tree(MNonDict, MAbsent, {"f1"})),
       WT(Tree(MDict("a", NoKey, "2.0"), MDict("b", NoKey, NoKey), {"f2"}),
          Tree(MDict(NoKey, "Plug", NoKey), MAbsent, {"f2"})),
       WT(Tree(MAbsent, MAbsent, {"f1"}),
          Tree(MAbsent, MDict("b", "Beta", NoKey), {"f3"})),
       WT(Tree(MDict("", NoKey, NoKey), MAbsent, {"f1"}),
          Tree(MMalformed, MAbsent, {"f1"})),
       WT(Tree(MDict("b", "Beta", "1.0"), MAbsent, {"f3"}),
          Tree(MDict("../evil", NoKey, NoKey), MAbsent, {"f5"})),
       WT(Tree(MDict("a/", "Slash", "1.0"), MAbsent, {"f4"}), NoEntry) >>

\* the working trees explored when requests overlap
ConcWorkTrees == {WorkTrees[1], WorkTrees[5]}

\* the directory above the temporary directory (the system's temp root),
\* which always exists: without a manifest, or with one somebody dropped there
HostTrees ==
    { Tree(MAbsent, MAbsent, {"h"}),
      Tree(MDict("a", "Host", NoKey), MAbsent, {"h"}) }

\* values of the request's optional fields
Refs == {NoKey, "v2"}
Subdirs == {NoKey, "plug", "nodir", ".."}

\* layouts PLUGINS_DIR may have when the process starts: empty; a plugin
\* installed earlier next to a stray file; directories copied in by hand (a
\* name that differs from the manifest id, an unparsable manifest); a
\* YAML-only plugin next to a manifest that is not a mapping; two directories
\* with one id
Layouts ==
    << Empty,
       [n \in {"a", "notes"} |->
           IF n = "a" THEN Tree(MDict("a", "Alpha", "0.9"), MAbsent, {"f0"})
           ELSE PlainFile],
       [n \in {"x", "b"} |->
           IF n = "x" THEN Tree(MDict("a", NoKey, NoKey), MAbsent, {"f0"})
           ELSE Tree(MMalformed, MAbsent, {"f0"})],
       [n \in {"a", "b"} |->
           IF n = "a" THEN Tree(MAbsent, MDict("a", NoKey, "3.0"), {"f0"})
           ELSE Tree(MNonDict, MAbsent, {"f0"})],
       [n \in {"a", "x"} |->
           IF n = "a" THEN Tree(MDict("a", "Alpha", "0.9"), MAbsent, {"f0"})
           ELSE Tree(MDict("a", "Other", "0.1"), MAbsent, {"f9"})] >>

Min(a, b) == IF a < b THEN a ELSE b

----------------------------------------------------------------------------
\* Requests

Reqs == 1..MaxInstalls

NoMeta == [plugin_id |-> NoKey, name |-> NoKey, version |-> NoKey, path |-> NoKey]
NoRoot == [tree |-> NoEntry, name |-> NoKey, outside |-> FALSE]

Idle ==
    [pc |-> "idle", ref |-> NoKey, subdir |-> NoKey,
     wt |-> WT(NoEntry, NoEntry), root |-> NoRoot,
     manifest |-> MAbsent, plugin_id |-> NoKey, todo |-> {},
     exc |-> "none", at |-> "none", status |-> 0, resp |-> NoMeta,
     fetch_rc |-> "none", loaded |-> FALSE, touched |-> FALSE, copied |-> FALSE,
     preDisk |-> Empty, preReg |-> Empty]

NoListing == [items |-> {}, total |-> 0, prev |-> [op |-> "none", r |-> 0]]

InFlight(r) == th[r].pc \notin {"idle", "done"}
Quiet == \A r \in DOMAIN th : ~InFlight(r)

\* variant: git errors are reported as server errors
StatusOfGit500(exc) ==
    CASE exc = "http400" -> 400
      [] exc = "http500" -> 500
      [] exc = "git" -> 500
      [] OTHER -> 400

\* the except clauses of install_from_git (src/api.py:132-138)
StatusOf(exc) ==
    CASE exc = "git" -> 400
      [] exc = "http400" -> 400
      [] exc = "http500" -> 500
      [] OTHER -> 400

\* an exception raised at step `at` leaves the try block
Raise(t, exc, at) ==
    [t EXCEPT !.pc = "finally", !.exc = exc, !.at = at, !.status = StatusOf(exc)]

\* plugin_root = tmpdir / req.subdir if req.subdir else tmpdir (src/api.py:106)
PluginRoot(r, t, host) ==
    IF ~Truthy(t.subdir) THEN [tree |-> t.wt.root, name |-> TmpName(r), outside |-> FALSE]
    ELSE IF t.subdir = "plug" THEN [tree |-> t.wt.plug, name |-> "plug", outside |-> FALSE]
    ELSE IF t.subdir = ".." THEN [tree |-> host, name |-> "..", outside |-> TRUE]
    ELSE [tree |-> NoEntry, name |-> t.subdir, outside |-> FALSE]

\* dest = PLUGINS_DIR / plugin_id (src/api.py:115): an id with ".." components
\* leads out of PLUGINS_DIR
Escapes(pid) == pid \in {"../evil"}

\* the child of PLUGINS_DIR that PLUGINS_DIR / plugin_id names when it stays
\* inside: the path join drops a trailing separator
DestName(pid) == IF pid = "a/" THEN "a" ELSE pid

\* external failures (git, disk) are explored when requests arrive one at a time
EnvFails == ~concurrent

\* the state of a fresh process over a plugins root left by earlier runs
InitWith(layouts, yamls, conc) ==
    /\ \E i \in layouts : disk = Layouts[i]
    /\ REGISTRY = Empty
    /\ yamlAvailable \in yamls
    /\ tmpdirs = {}
    /\ th = [r \in {0} \cup Reqs |-> Idle]
    /\ nreq = 0
    /\ started = FALSE
    /\ concurrent = conc
    /\ listing = NoListing
    /\ lastScan = Empty
    /\ lastOp = [op |-> "none", r |-> 0]

Init == InitWith(1..Min(MaxLayouts, Len(Layouts)), BOOLEAN, FALSE)

----------------------------------------------------------------------------
\* Startup hook and listing endpoint

\* The process starts (or is restarted while no request is being served): the
\* module is loaded with REGISTRY = {} (src/api.py:19) and the startup hook
\* _startup (src/api.py:74-76) begins its scan; requests are served once it is
\* over.  Nothing of the previous process is remembered.
Boot == 0

Startup ==
    /\ Quiet
    /\ th[Boot].pc \in {"idle", "done"}
    /\ concurrent => ~started
    /\ REGISTRY' = Empty
    /\ started' = FALSE
    /\ th' = [q \in DOMAIN th |->
                IF q = Boot THEN [Idle EXCEPT !.pc = "scan_clear"]
                ELSE [Idle EXCEPT !.pc = th[q].pc]]
    /\ listing' = NoListing
    /\ lastScan' = Empty
    /\ lastOp' = [op |-> "none", r |-> 0]
    /\ UNCHANGED <<disk, yamlAvailable, tmpdirs, nreq, concurrent>>

\* list(REGISTRY.values())
Values(reg) == {reg[k] : k \in DOMAIN reg}

\* list_installed (src/api.py:78-85)
list_installed ==
    /\ started
    /\ concurrent \/ Quiet
    /\ listing' = [items |-> Values(REGISTRY),
                   total |-> Cardinality(DOMAIN REGISTRY),
                   prev |-> lastOp]
    /\ UNCHANGED <<disk, REGISTRY, yamlAvailable, tmpdirs, th, nreq, started,
                   concurrent, lastScan, lastOp>>

----------------------------------------------------------------------------
\* install_from_git (src/api.py:87-140), one step per external call

Step(r, t) == th' = [th EXCEPT ![r] = t]

\* the request arrives; tempfile.mkdtemp (src/api.py:94).  What was remembered
\* about requests that have been answered, and the last listing, is dropped.
Begin(r) ==
    /\ started
    /\ r = nreq + 1
    /\ th[r].pc = "idle"
    /\ concurrent \/ Quiet
    /\ \E ref \in Refs, subdir \in (IF concurrent THEN {NoKey} ELSE Subdirs) :
         th' = [q \in DOMAIN th |->
                  IF q = r THEN [Idle EXCEPT !.pc = "clone", !.ref = ref, !.subdir = subdir,
                                             !.preDisk = disk, !.preReg = REGISTRY]
                  ELSE IF th[q].pc = "done" THEN [Idle EXCEPT !.pc = "done"]
                  ELSE th[q]]
    /\ nreq' = r
    /\ tmpdirs' = tmpdirs \cup {TmpName(r)}
    /\ listing' = NoListing
    /\ UNCHANGED <<disk, REGISTRY, yamlAvailable, started, concurrent, lastScan, lastOp>>

\* what `git clone` / `git checkout` may leave in the temporary directory
Fetchable == IF concurrent THEN ConcWorkTrees ELSE {WorkTrees[i] : i \in DOMAIN WorkTrees}

\* git clone, check=True (src/api.py:97-98); with a ref, the tree that is read
\* is the one the checkout leaves
Clone(r) ==
    /\ th[r].pc = "clone"
    /\ \/ \E wt \in Fetchable :
            Step(r, IF Truthy(th[r].ref) THEN [th[r] EXCEPT !.pc = "fetch"]
                    ELSE [th[r] EXCEPT !.wt = wt, !.pc = "subdir"])
       \/ EnvFails /\ Step(r, Raise(th[r], "git", "clone"))
    /\ UNCHANGED <<disk, REGISTRY, yamlAvailable, tmpdirs, nreq, started, concurrent,
                   listing, lastScan, lastOp>>

\* variant: the fetch is run with check=True, so its failure is a git error
FetchChecked(r) ==
    /\ th[r].pc = "fetch"
    /\ \E rc \in (IF EnvFails THEN {"ok", "failed"} ELSE {"ok"}) :
         IF rc = "failed" THEN Step(r, Raise(th[r], "git", "fetch"))
         ELSE Step(r, [th[r] EXCEPT !.fetch_rc = rc, !.pc = "checkout"])
    /\ UNCHANGED <<disk, REGISTRY, yamlAvailable, tmpdirs, nreq, started, concurrent,
                   listing, lastScan, lastOp>>

\* git fetch --all, check=False: its exit status is ignored (src/api.py:102)
Fetch(r) ==
    /\ th[r].pc = "fetch"
    /\ \E rc \in (IF EnvFails THEN {"ok", "failed"} ELSE {"ok"}) :
         Step(r, [th[r] EXCEPT !.fetch_rc = rc, !.pc = "checkout"])
    /\ UNCHANGED <<disk, REGISTRY, yamlAvailable, tmpdirs, nreq, started, concurrent,
                   listing, lastScan, lastOp>>

\* git checkout ref, check=True (src/api.py:103); req.ref and the exit status
\* of the fetch are not read again
Checkout(r) ==
    /\ th[r].pc = "checkout"
    /\ \/ \E wt \in Fetchable :
            Step(r, [th[r] EXCEPT !.wt = wt, !.ref = NoKey, !.fetch_rc = "none",
                                  !.pc = "subdir"])
       \/ EnvFails /\ Step(r, Raise([th[r] EXCEPT !.fetch_rc = "none"], "git", "checkout"))
    /\ UNCHANGED <<disk, REGISTRY, yamlAvailable, tmpdirs, nreq, started, concurrent,
                   listing, lastScan, lastOp>>

\* plugin_root and its existence check (src/api.py:106-108); from here on the
\* temporary directory is read through plugin_root only
SubdirCheck(r) ==
    /\ th[r].pc = "subdir"
    /\ \E host \in HostTrees :
         LET root == PluginRoot(r, th[r], host) IN
         IF root.tree.kind = "none"
         THEN Step(r, Raise([th[r] EXCEPT !.wt = Idle.wt], "http400", "subdir"))
         ELSE Step(r, [th[r] EXCEPT !.root = root, !.wt = Idle.wt, !.pc = "manifest"])
    /\ UNCHANGED <<disk, REGISTRY, yamlAvailable, tmpdirs, nreq, started, concurrent,
                   listing, lastScan, lastOp>>

\* manifest = load_manifest(plugin_root); plugin_id (src/api.py:111-112)
LoadManifest(r) ==
    /\ th[r].pc = "manifest"
    /\ LET t == [th[r] EXCEPT !.loaded = TRUE]
           m == load_manifest(t.root.tree, yamlAvailable)
       IN IF m.exc # "none" THEN Step(r, Raise(t, m.exc, "manifest"))
          ELSE IF m.value.kind # "dict" THEN Step(r, Raise(t, "error", "manifest"))
          ELSE Step(r, [t EXCEPT !.manifest = m.value,
                                 !.plugin_id = PluginId(m.value, t.root.name),
                                 !.pc = "dest"])
    /\ UNCHANGED <<disk, REGISTRY, yamlAvailable, tmpdirs, nreq, started, concurrent,
                   listing, lastScan, lastOp>>

\* dest = PLUGINS_DIR / plugin_id; dest.exists() (src/api.py:115-116); what
\* lies outside PLUGINS_DIR may or may not exist
DestExists(r) ==
    /\ th[r].pc = "dest"
    /\ \E outside \in BOOLEAN :
         LET exists == IF Escapes(th[r].plugin_id) THEN outside
                       ELSE DestName(th[r].plugin_id) \in DOMAIN disk
         IN Step(r, [th[r] EXCEPT !.pc = IF exists THEN "rmtree" ELSE "copy"])
    /\ UNCHANGED <<disk, REGISTRY, yamlAvailable, tmpdirs, nreq, started, concurrent,
                   listing, lastScan, lastOp>>

\* what a tree can look like after a removal or a copy that failed part-way:
\* some of its files are there, the manifest is not
Remnants(tree) ==
    { [tree EXCEPT !.json = MAbsent, !.yaml = MAbsent] }

\* variant: the old destination is not removed; the new tree is copied over it
RmtreeMerge(r) ==
    /\ th[r].pc = "rmtree"
    /\ DestName(th[r].plugin_id) \in DOMAIN disk
    /\ LET pid == DestName(th[r].plugin_id)
           new == th[r].root.tree
       IN disk' = Put(disk, pid, [new EXCEPT !.files = @ \cup disk[pid].files])
    /\ Step(r, [th[r] EXCEPT !.touched = TRUE, !.copied = TRUE, !.pc = "scan_clear"])
    /\ UNCHANGED <<REGISTRY, yamlAvailable, tmpdirs, nreq, started, concurrent,
                   listing, lastScan, lastOp>>

\* shutil.rmtree(dest) (src/api.py:117)
Rmtree(r) ==
    /\ th[r].pc = "rmtree"
    /\ LET pid == DestName(th[r].plugin_id)
           t == [th[r] EXCEPT !.touched = TRUE]
       IN IF Escapes(th[r].plugin_id)
          THEN /\ Step(r, [t EXCEPT !.pc = "copy"])
               /\ disk' = disk
          ELSE IF pid \notin DOMAIN disk \/ disk[pid].kind # "dir"
          THEN /\ Step(r, Raise(th[r], "error", "rmtree"))
               /\ disk' = disk
          ELSE \/ /\ disk' = Del(disk, pid)
                  /\ Step(r, [t EXCEPT !.pc = "copy"])
               \/ /\ EnvFails
                  /\ \E left \in Remnants(disk[pid]) \cup {disk[pid]} :
                       disk' = Put(disk, pid, left)
                  /\ Step(r, Raise(t, "error", "rmtree"))
    /\ UNCHANGED <<REGISTRY, yamlAvailable, tmpdirs, nreq, started, concurrent,
                   listing, lastScan, lastOp>>

\* shutil.copytree(plugin_root, dest) (src/api.py:118): dest must not exist;
\* a file that cannot be copied is skipped and reported once the rest is done
Copytree(r) ==
    /\ th[r].pc = "copy"
    /\ LET pid == DestName(th[r].plugin_id)
           t == [th[r] EXCEPT !.touched = TRUE]
       IN IF Escapes(th[r].plugin_id)
          THEN /\ Step(r, [t EXCEPT !.copied = TRUE, !.pc = "scan_clear"])
               /\ disk' = disk
          ELSE IF pid \in DOMAIN disk
          THEN /\ Step(r, Raise(th[r], "error", "copy"))
               /\ disk' = disk
          ELSE \/ /\ disk' = Put(disk, pid, th[r].root.tree)
                  /\ Step(r, [t EXCEPT !.copied = TRUE, !.pc = "scan_clear"])
               \/ /\ EnvFails
                  /\ \E part \in Remnants(th[r].root.tree) :
                       disk' = Put(disk, pid, part)
                  /\ Step(r, Raise(t, "error", "copy"))
               \/ /\ EnvFails
                  /\ disk' = disk
                  /\ Step(r, Raise(th[r], "error", "copy"))
    /\ UNCHANGED <<REGISTRY, yamlAvailable, tmpdirs, nreq, started, concurrent,
                   listing, lastScan, lastOp>>

\* variant: the scan does not clear the registry before rebuilding it
ScanClearKeeps(r) ==
    /\ th[r].pc = "scan_clear"
    /\ Step(r, [th[r] EXCEPT !.pc = "scan_list"])
    /\ UNCHANGED <<disk, REGISTRY, yamlAvailable, tmpdirs, nreq, started, concurrent,
                   listing, lastScan, lastOp>>

\* scan_plugins_registry() called by the install (src/api.py:121):
\* REGISTRY.clear() (src/api.py:49)
ScanClear(r) ==
    /\ th[r].pc = "scan_clear"
    /\ REGISTRY' = Empty
    /\ Step(r, [th[r] EXCEPT !.pc = "scan_list"])
    /\ UNCHANGED <<disk, yamlAvailable, tmpdirs, nreq, started, concurrent,
                   listing, lastScan, lastOp>>

\* PLUGINS_DIR.iterdir() lists the directory once (src/api.py:50)
ScanList(r) ==
    /\ th[r].pc = "scan_list"
    /\ Step(r, [th[r] EXCEPT !.todo = DOMAIN disk, !.pc = "scan_loop"])
    /\ UNCHANGED <<disk, REGISTRY, yamlAvailable, tmpdirs, nreq, started, concurrent,
                   listing, lastScan, lastOp>>

\* one iteration of the loop, in whatever order iterdir yields (src/api.py:50-64)
ScanNext(r) ==
    /\ th[r].pc = "scan_loop"
    /\ \E name \in th[r].todo :
         LET s == ScanEntry(REGISTRY, disk, name, yamlAvailable)
             t == [th[r] EXCEPT !.todo = @ \ {name}]
         IN /\ REGISTRY' = s.reg
            /\ Step(r, IF s.raised THEN Raise(t, "error", "scan") ELSE t)
    /\ UNCHANGED <<disk, yamlAvailable, tmpdirs, nreq, started, concurrent,
                   listing, lastScan, lastOp>>

\* the loop is over: scan_plugins_registry returns
ScanReturn(r) ==
    /\ th[r].pc = "scan_loop"
    /\ th[r].todo = {}
    /\ lastScan' = REGISTRY
    /\ IF r = Boot
       THEN /\ Step(r, [Idle EXCEPT !.pc = "done"])
            /\ started' = TRUE
            /\ lastOp' = [op |-> "startup", r |-> 0]
       ELSE /\ Step(r, [th[r] EXCEPT !.pc = "lookup"])
            /\ UNCHANGED <<started, lastOp>>
    /\ UNCHANGED <<disk, REGISTRY, yamlAvailable, tmpdirs, nreq, concurrent, listing>>

\* meta = REGISTRY[plugin_id] and the response (src/api.py:123-130)
Lookup(r) ==
    /\ th[r].pc = "lookup"
    /\ IF th[r].plugin_id \in DOMAIN REGISTRY
       THEN Step(r, [th[r] EXCEPT !.resp = REGISTRY[th[r].plugin_id],
                                  !.status = 200, !.pc = "finally"])
       ELSE Step(r, Raise(th[r], "error", "lookup"))
    /\ UNCHANGED <<disk, REGISTRY, yamlAvailable, tmpdirs, nreq, started, concurrent,
                   listing, lastScan, lastOp>>

\* finally: shutil.rmtree(tmpdir, ignore_errors=True) (src/api.py:139-140)
Cleanup(dirs, r) == dirs \ {TmpName(r)}

\* the handler has returned or raised: its locals are gone, and what is left
\* is the response and what is remembered about the run
Outcome(t) ==
    [Idle EXCEPT !.pc = "done", !.status = t.status, !.exc = t.exc, !.at = t.at,
                 !.plugin_id = t.plugin_id, !.resp = t.resp, !.subdir = t.subdir,
                 !.loaded = t.loaded, !.touched = t.touched, !.copied = t.copied,
                 !.root = IF t.copied THEN t.root ELSE NoRoot,
                 !.preDisk = t.preDisk, !.preReg = t.preReg]

\* variant: the temporary directory is removed at the end of the try block
\* instead of in a finally clause
FinallyOnSuccessOnly(r) ==
    /\ th[r].pc = "finally"
    /\ tmpdirs' = IF th[r].exc = "none" THEN Cleanup(tmpdirs, r) ELSE tmpdirs
    /\ Step(r, Outcome(th[r]))
    /\ lastOp' = [op |-> "install", r |-> r]
    /\ UNCHANGED <<disk, REGISTRY, yamlAvailable, nreq, started, concurrent,
                   listing, lastScan>>

Finally(r) ==
    /\ th[r].pc = "finally"
    /\ tmpdirs' = Cleanup(tmpdirs, r)
    /\ Step(r, Outcome(th[r]))
    /\ lastOp' = [op |-> "install", r |-> r]
    /\ UNCHANGED <<disk, REGISTRY, yamlAvailable, nreq, started, concurrent,
                   listing, lastScan>>

install_from_git(r) ==
    \/ Begin(r) \/ Clone(r) \/ Fetch(r) \/ Checkout(r) \/ SubdirCheck(r)
    \/ LoadManifest(r) \/ DestExists(r) \/ Rmtree(r) \/ Copytree(r)
    \/ Lookup(r) \/ Finally(r)

\* the steps of scan_plugins_registry, run by the startup hook or by an install
ScanStep(r) == ScanClear(r) \/ ScanList(r) \/ ScanNext(r) \/ ScanReturn(r)

Next ==
    \/ Startup
    \/ list_installed
    \/ \E r \in Reqs : install_from_git(r)
    \/ \E r \in {Boot} \cup Reqs : ScanStep(r)

\* requests arrive one at a time
Spec == Init /\ [][Next]_vars

\* requests overlap: the handlers run on the server's thread pool
InitConc == InitWith({1, 2}, {TRUE}, TRUE)
SpecConc == InitConc /\ [][Next]_vars

----------------------------------------------------------------------------
\* Vocabulary of the properties

\* the manifest file load_manifest reads in a directory: JSON before YAML
ManifestOf(e) == IF e.json.kind # "absent" THEN e.json ELSE e.yaml

\* the directory is a plugin directory whose manifest loads as a mapping
Loads(e) ==
    /\ e.kind = "dir"
    /\ ManifestOf(e).kind = "dict"
    /\ e.json.kind = "absent" => yamlAvailable

\* names under the plugins root whose manifest resolves to identity k
DirsOf(fs, k) == {n \in DOMAIN fs : Loads(fs[n]) /\ PluginId(ManifestOf(fs[n]), n) = k}

\* a scan has just returned and nothing has run since
JustScanned ==
    \/ \E r \in Reqs : th[r].pc = "lookup"
    \/ Quiet /\ started /\ lastOp.op = "startup"

Done(r) == th[r].pc = "done"
Failed(r) == Done(r) /\ th[r].exc # "none"
Succeeded(r) == Done(r) /\ th[r].status = 200

\* the orders in which iterdir may enumerate a set of names
Orders(S) == {o \in [1..Cardinality(S) -> S] : \A x \in S : \E i \in DOMAIN o : o[i] = x}

----------------------------------------------------------------------------
PreCommitFailure(r) ==
    /\ Failed(r)
    /\ \/ th[r].at \in {"clone", "checkout"}
       \/ th[r].at = "manifest" /\ th[r].exc = "http400"

C2_PreCommitFailureLeavesState ==
    \A r \in Reqs :
        PreCommitFailure(r) =>
            /\ th[r].status = 400
            /\ disk = th[r].preDisk
            /\ REGISTRY = th[r].preReg

\* C2 witness: a clone failed while a plugin was installed and registered
C2_Witness ==
    \E r \in Reqs : /\ PreCommitFailure(r) /\ th[r].at = "clone"
                    /\ DOMAIN REGISTRY # {} /\ DOMAIN disk # {}

\* C3: a successful install whose identity already had a directory leaves that
\* one directory holding exactly the newly staged tree (nothing of the old tree
\* is left), and adds no other directory.
C3_ReplaceNotMerge ==
    \A r \in Reqs :
        (Succeeded(r) /\ th[r].plugin_id \in DOMAIN th[r].preDisk) =>
            /\ th[r].plugin_id \in DOMAIN disk
            /\ disk[th[r].plugin_id] = th[r].root.tree
            /\ DOMAIN disk = DOMAIN th[r].preDisk

\* C3 witness: the second install replaced the tree the first install had
\* written for the same identity by a different one
C3_Witness ==
    /\ Succeeded(2)
    /\ th[2].plugin_id = "a"
    /\ "a" \in DOMAIN th[2].preDisk /\ "a" \in DOMAIN disk
    /\ th[2].preDisk["a"].files = {"f1"}
    /\ disk["a"].files = {"f2"}

\* C4: what list_installed returns is the registry of the last completed scan
\* or the registry a complete scan of the present plugins root produces.
IsListing == listing' # listing /\ listing' # NoListing

C4_ListingIsCompleteSnapshot ==
    [][IsListing =>
         \/ listing'.items = Values(lastScan)
         \/ \E o \in Orders(DOMAIN disk) :
              listing'.items = Values(scan_plugins_registry(disk, o, yamlAvailable).reg)
      ]_vars

\* C5 (as the spec states it): the response of a successful install has the
\* path PLUGINS_DIR / plugin_id.
C5_ResponsePathIsDest ==
    \A r \in Reqs : Succeeded(r) => th[r].resp.path = Resolve(th[r].plugin_id)

\* C5 (amended): the response of a successful install carries the plugin_id
\* derived from the staged manifest; its path is PLUGINS_DIR / plugin_id when
\* no other directory of the plugins root resolves to that plugin_id; and a
\* listing taken next holds exactly one entry with that plugin_id, equal to
\* the response.
C5_ResponseIsCommittedEntry ==
    \A r \in Reqs :
        Succeeded(r) =>
            /\ th[r].copied
            /\ th[r].resp.plugin_id = PluginId(ManifestOf(th[r].root.tree), th[r].root.name)
            /\ DirsOf(disk, th[r].plugin_id) = {th[r].plugin_id}
                 => th[r].resp.path = Resolve(th[r].plugin_id)
            /\ (listing # NoListing /\ listing.prev = [op |-> "install", r |-> r]) =>
                 /\ {e \in listing.items : e.plugin_id = th[r].resp.plugin_id} = {th[r].resp}
                 /\ listing.total = Cardinality(listing.items)

\* C5 witness: a listing taken right after a successful install whose
\* plugin_id came from the directory name
C5_Witness ==
    \E r \in Reqs :
        /\ Succeeded(r)
        /\ listing # NoListing /\ listing.prev = [op |-> "install", r |-> r]
        /\ th[r].plugin_id = "plug"
        /\ th[r].resp.path = Resolve("plug")
        /\ listing.total >= 2

\* C6: a request whose subdir leads out of the cloned tree, or to a path that
\* does not exist in it, never reaches load_manifest nor the destination, and
\* is answered 400 by the subdir check.
C6_SubdirRejectedBeforeLoad ==
    \A r \in Reqs :
        (th[r].subdir = ".." \/ th[r].at = "subdir") =>
            /\ ~th[r].loaded
            /\ ~th[r].touched
            /\ th[r].pc \in {"finally", "done"} => (th[r].status = 400 /\ th[r].at = "subdir")

\* C7: whenever no request is running, every registry entry's path is an
\* existing directory of the plugins root.
C7_RegistryPathsExist ==
    (Quiet /\ started) =>
        \A k \in DOMAIN REGISTRY :
            \E n \in DOMAIN disk : disk[n].kind = "dir" /\ REGISTRY[k].path = Resolve(n)

\* C8: right after a scan the registry's keys are exactly the identities of
\* the directories whose manifest loads, and every entry is the metadata of
\* such a directory as it is on disk now.
C8_ScanRebuildsExactly ==
    JustScanned =>
        /\ DOMAIN REGISTRY = {k \in {PluginId(ManifestOf(disk[n]), n) : n \in DOMAIN disk} :
                                 DirsOf(disk, k) # {}}
        /\ \A k \in DOMAIN REGISTRY :
             \E n \in DirsOf(disk, k) : REGISTRY[k] = Meta(ManifestOf(disk[n]), n)

\* C8 witness: a scan run by an install dropped an entry of the previous
\* snapshot whose directory is gone, next to a directory it skipped
C8_Witness ==
    /\ \E r \in Reqs : /\ th[r].pc = "lookup"
                        /\ \E k \in DOMAIN th[r].preReg : k \notin DOMAIN REGISTRY
    /\ \E n \in DOMAIN disk : ~Loads(disk[n])
    /\ DOMAIN REGISTRY # {}

\* C9: no scan ever ends by raising; after a scan every directory whose
\* manifest loads has its identity registered, and no entry points to a
\* directory whose manifest is missing or does not load.
C9_ScanSkipsBroken ==
    /\ \A r \in DOMAIN th : th[r].at # "scan"
    /\ JustScanned =>
         \A n \in DOMAIN disk :
            IF Loads(disk[n])
            THEN PluginId(ManifestOf(disk[n]), n) \in DOMAIN REGISTRY
            ELSE \A k \in DOMAIN REGISTRY : REGISTRY[k].path # Resolve(n)

\* C9 witness: a scan has returned over a root holding an unparsable manifest,
\* a manifest that is not a mapping or none at all, and registered the others
C9_Witness ==
    /\ JustScanned
    /\ \E n \in DOMAIN disk : disk[n].kind = "dir" /\ ManifestOf(disk[n]).kind = "malformed"
    /\ \E n \in DOMAIN disk : Loads(disk[n]) /\ n \in DOMAIN REGISTRY

\* C10: a request that completed its copy, while no other request was working
\* on the same identity, is answered 200.
C10_IndependentInstallsSucceed ==
    \A r \in Reqs :
        (Done(r) /\ th[r].copied
         /\ \A q \in Reqs \ {r} : th[q].plugin_id # th[r].plugin_id)
        => th[r].status = 200

\* C11: two install_from_git requests that derive the same plugin_id are
\* serialized: while one is between its check of dest and the end of its copy,
\* the other is not, and neither ends with a failure raised by its own
\* removal or copy of dest (no disk failure is injected when requests
\* overlap, so such a failure is the other request's doing).
InReplace(r) == th[r].pc \in {"rmtree", "copy"}

C11_SameIdentitySerialized ==
    \A r \in Reqs : \A q \in Reqs \ {r} :
        (th[r].plugin_id # NoKey /\ th[q].plugin_id = th[r].plugin_id) =>
            /\ ~(InReplace(r) /\ InReplace(q))
            /\ th[r].at \notin {"rmtree", "copy"}

----------------------------------------------------------------------------
\* the manifest install_from_git has to load is the YAML one
YamlNeeded(r) ==
    /\ th[r].root.tree.kind = "dir"
    /\ th[r].root.tree.json.kind = "absent"
    /\ th[r].root.tree.yaml.kind # "absent"

----------------------------------------------------------------------------
BothManifests(e) == e.kind = "dir" /\ e.json.kind # "absent" /\ e.yaml.kind # "absent"

\* manifest files that occur in the explored working trees and layouts
SampleFiles ==
    {WorkTrees[i].root.json : i \in DOMAIN WorkTrees}
        \cup {WorkTrees[i].root.yaml : i \in DOMAIN WorkTrees}
        \cup {WorkTrees[i].plug.json : i \in DOMAIN WorkTrees}
        \cup {WorkTrees[i].plug.yaml : i \in DOMAIN WorkTrees}
        \cup {MMalformed, MNonDict}

\* C13: for a directory holding both manifest.json and manifest.yaml,
\* load_manifest gives what loading the JSON file gives, whatever the YAML
\* file holds and whether or not the YAML parser is available: the load an
\* install is about to do gives the JSON result for every YAML file put next
\* to the JSON one, an install from such a directory never ends with 500 and
\* works with the JSON content, and a scan registers such a directory under
\* the JSON content.
C13_JsonTakesPrecedence ==
    /\ \A r \in Reqs :
         (th[r].pc = "manifest" /\ th[r].root.tree.json.kind # "absent") =>
            \A y \in SampleFiles \ {MAbsent} : \A ok \in BOOLEAN :
                load_manifest([th[r].root.tree EXCEPT !.yaml = y], ok)
                    = Parse(th[r].root.tree.json)
    /\ \A r \in Reqs :
         (th[r].loaded /\ BothManifests(th[r].root.tree)) =>
            /\ th[r].status # 500
            /\ th[r].manifest \in {MAbsent, th[r].root.tree.json}
            /\ th[r].pc \in {"dest", "rmtree", "copy"} =>
                   th[r].manifest = th[r].root.tree.json
    /\ JustScanned =>
         \A n \in DOMAIN disk :
            (BothManifests(disk[n]) /\ disk[n].json.kind = "dict") =>
                LET k == IF Truthy(disk[n].json.id) THEN disk[n].json.id ELSE n
                IN /\ k \in DOMAIN REGISTRY
                   /\ (\A m \in DOMAIN disk \ {n} :
                          disk[m].kind = "dir" =>
                             (disk[m].json.id # k /\ disk[m].yaml.id # k /\ m # k))
                         => REGISTRY[k].version =
                               IF disk[n].json.version = NoKey THEN DEFAULT_VERSION
                               ELSE disk[n].json.version

C13_Witness ==
    \E r \in Reqs :
        /\ th[r].pc = "lookup"
        /\ BothManifests(th[r].root.tree)
        /\ ~yamlAvailable
        /\ th[r].plugin_id \in DOMAIN REGISTRY
        /\ th[r].manifest = th[r].root.tree.json
        /\ th[r].root.tree.yaml.id # th[r].root.tree.json.id
        /\ REGISTRY[th[r].plugin_id].version = th[r].root.tree.json.version

----------------------------------------------------------------------------
\* C14: every registry entry has a non-empty plugin_id, and right after a scan
\* every entry is built from the manifest of a directory that loads: its
\* plugin_id is the manifest id, or the directory name when the id is absent
\* or empty, its name is the plugin_id when the manifest has no name, and its
\* version is DEFAULT_VERSION when the manifest has no version; the identity
\* install_from_git derives from the staged manifest follows the same rule
\* with the name of the plugin root.
C14_Defaults ==
    /\ \A k \in DOMAIN REGISTRY : REGISTRY[k].plugin_id \notin {"", NoKey}
    /\ JustScanned =>
         \A k \in DOMAIN REGISTRY :
            \E n \in DOMAIN disk :
                /\ Loads(disk[n])
                /\ REGISTRY[k].path = Resolve(n)
                /\ LET m == ManifestOf(disk[n]) IN
                   /\ REGISTRY[k].plugin_id = IF m.id \in {NoKey, ""} THEN n ELSE m.id
                   /\ REGISTRY[k].name =
                        IF m.name = NoKey THEN REGISTRY[k].plugin_id ELSE m.name
                   /\ REGISTRY[k].version =
                        IF m.version = NoKey THEN DEFAULT_VERSION ELSE m.version
    /\ \A r \in Reqs :
         th[r].manifest # MAbsent =>
            /\ th[r].plugin_id # ""
            /\ th[r].plugin_id = IF th[r].manifest.id \in {NoKey, ""}
                                 THEN th[r].root.name ELSE th[r].manifest.id

C14_Witness ==
    /\ JustScanned
    /\ \E n \in DOMAIN disk :
         /\ Loads(disk[n])
         /\ ManifestOf(disk[n]).id = ""
         /\ ManifestOf(disk[n]).name = NoKey
         /\ ManifestOf(disk[n]).version = NoKey
         /\ n \in DOMAIN REGISTRY
         /\ REGISTRY[n] = [plugin_id |-> n, name |-> n, version |-> DEFAULT_VERSION,
                           path |-> Resolve(n)]

----------------------------------------------------------------------------
\* C15: once an install attempt is over, the destination directory of its
\* plugin_id is either as it was before the attempt (the complete previous
\* installation, or absent) or the complete staged tree; never removed
\* without a replacement and never a partial copy.
C15_NoPartialDestination ==
    \A r \in Reqs :
        (Done(r) /\ th[r].plugin_id # NoKey /\ ~Escapes(th[r].plugin_id)) =>
            LET d == DestName(th[r].plugin_id)
                before == IF d \in DOMAIN th[r].preDisk THEN th[r].preDisk[d] ELSE NoEntry
                now == IF d \in DOMAIN disk THEN disk[d] ELSE NoEntry
            IN \/ now = before
               \/ th[r].copied /\ now = th[r].root.tree

----------------------------------------------------------------------------
\* C16: the fetch and the checkout run only for a request with a ref, the
\* checkout only after the fetch has run; a request with a ref does not get
\* past the clone without them; whatever the fetch's exit status, it never
\* fails the request; a failed checkout is answered 400 with no manifest
\* loaded and nothing changed under the plugins root.
C16_RefCheckout ==
    \A r \in Reqs :
        /\ th[r].pc \in {"fetch", "checkout"} => Truthy(th[r].ref)
        /\ th[r].pc = "checkout" <=> th[r].fetch_rc # "none"
        /\ th[r].pc \in {"subdir", "manifest", "dest", "rmtree", "copy"} => ~Truthy(th[r].ref)
        /\ th[r].at # "fetch"
        /\ th[r].at = "checkout" =>
              /\ th[r].status = 400
              /\ ~th[r].loaded /\ ~th[r].touched
              /\ disk = th[r].preDisk

C16_Witness ==
    \E r \in Reqs : th[r].pc = "checkout" /\ th[r].fetch_rc = "failed"

----------------------------------------------------------------------------
\* the step is one iteration of a scan's loop, by r, over directory n
ScanIteration(r, n) ==
    /\ th[r].pc = "scan_loop"
    /\ n \in th[r].todo
    /\ th'[r].todo = th[r].todo \ {n}

\* C17: when a scan processes a directory whose manifest loads, the registry
\* afterwards holds exactly one entry for the directory's identity, with the
\* name, version and path of that directory and nothing kept of an entry an
\* earlier directory left under the same identity; the other entries are
\* untouched. So of two directories with one identity, the one processed
\* last is the one registered.
C17_LastProcessedWins ==
    [][\A r \in DOMAIN th : \A n \in DOMAIN disk :
          (ScanIteration(r, n) /\ Loads(disk[n])) =>
              LET m == ManifestOf(disk[n])
                  k == IF Truthy(m.id) THEN m.id ELSE n
              IN /\ DOMAIN REGISTRY' = DOMAIN REGISTRY \cup {k}
                 /\ {j \in DOMAIN REGISTRY' : REGISTRY'[j].plugin_id = k} = {k}
                 /\ REGISTRY'[k].name = (IF m.name = NoKey THEN k ELSE m.name)
                 /\ REGISTRY'[k].version =
                       (IF m.version = NoKey THEN DEFAULT_VERSION ELSE m.version)
                 /\ REGISTRY'[k].path = Resolve(n)
                 /\ \A j \in DOMAIN REGISTRY \ {k} : REGISTRY'[j] = REGISTRY[j]
      ]_vars

\* a scan has registered identity "a", which two directories share, as the
\* one processed second
C17_Witness ==
    \E r \in DOMAIN th :
        /\ th[r].pc = "scan_loop"
        /\ th[r].todo = {}
        /\ DirsOf(disk, "a") = {"a", "x"}
        /\ "a" \in DOMAIN REGISTRY
        /\ REGISTRY["a"].path = Resolve("x")
        /\ REGISTRY["a"].name = "a"
        /\ disk["a"].json.name # NoKey

----------------------------------------------------------------------------
\* C18: whatever the manifest id and the subdir of a request, a request that
\* has removed or written anything for its destination did so at an immediate
\* child of the plugins root: its dest does not lead out of the plugins root.
C18_DestIsChildOfRoot ==
    \A r \in Reqs : th[r].touched => ~Escapes(th[r].plugin_id)

----------------------------------------------------------------------------
\* C19: installing a source whose tree is already installed (the staged tree
\* equals a directory the plugins root held before the request, left there by
\* an install of the same source) changes nothing: when the request succeeds,
\* the plugins root holds the same directories with the same content as
\* before it, and the registry has the same identities.
C19_ReinstallChangesNothing ==
    \A r \in Reqs :
        (Succeeded(r)
         /\ \E n \in DOMAIN th[r].preDisk : th[r].preDisk[n] = th[r].root.tree) =>
            /\ disk = th[r].preDisk
            /\ DOMAIN REGISTRY = DOMAIN th[r].preReg

----------------------------------------------------------------------------
\* the process starts on an empty plugins root
InitEmpty == InitWith({1}, BOOLEAN, FALSE)
SpecEmpty == InitEmpty /\ [][Next]_vars

\* C20: starting from an empty plugins root, with startup scans and installs
\* one at a time, every directory whose manifest loads is named by the
\* identity a scan derives for it (so no two directories share an identity),
\* and whenever no scan is running every registry key equals its entry's
\* plugin_id and every entry's path is the plugins root joined with it.
C20_NamesAreIdentities ==
    /\ \A n \in DOMAIN disk :
         Loads(disk[n]) =>
            (IF Truthy(ManifestOf(disk[n]).id) THEN ManifestOf(disk[n]).id ELSE n) = n
    /\ \A k \in DOMAIN REGISTRY :
         /\ REGISTRY[k].plugin_id = k
         /\ REGISTRY[k].path = Resolve(k)

====
